---------------------------- MODULE Spec2Model ----------------------------
(***************************************************************************)
(* A model of VtigerApiClient (src/unnamed/part_000): one client instance, *)
(* its three session fields, the calls in flight on it, and the requests   *)
(* it puts on the wire.  The remote service and the transport are the      *)
(* environment: every response is chosen nondeterministically.             *)
(*                                                                         *)
(* An async method runs synchronously up to its first await, so invoking a *)
(* method is one step (it builds and sends the request), and each          *)
(* continuation after an await is one step.                                *)
(***************************************************************************)
EXTENDS Naturals, Sequences, FiniteSets, TLC

(***************************************************************************)
(* JavaScript values.  Every value is a record of one shape, so that any   *)
(* two of them can be compared: t is the type tag, n the number, s the     *)
(* string (or an Error's message), m the members of an object as a         *)
(* sequence of <<key, value>> pairs in insertion order.                    *)
(***************************************************************************)
Null == [t |-> "null", n |-> 0, s |-> "", m |-> <<>>]

Undefined == [t |-> "undefined", n |-> 0, s |-> "", m |-> <<>>]

Str(x) == [t |-> "string", n |-> 0, s |-> x, m |-> <<>>]

Num(k) == [t |-> "number", n |-> k, s |-> "", m |-> <<>>]

Bool(b) == [t |-> "boolean", n |-> IF b THEN 1 ELSE 0, s |-> "", m |-> <<>>]

Obj(members) == [t |-> "object", n |-> 0, s |-> "", m |-> members]

\* new Error(msg)
Err(msg) == [t |-> "error", n |-> 0, s |-> msg, m |-> <<>>]

Nullish(v) == v.t \in {"null", "undefined"}

\* String(v): how a template literal, string concatenation and
\* URLSearchParams.append print a value.
ToStringJS(v) ==
    CASE v.t = "string" -> v.s
      [] v.t = "number" -> ToString(v.n)
      [] v.t = "boolean" -> IF v.n = 1 THEN "true" ELSE "false"
      [] v.t = "null" -> "null"
      [] v.t = "undefined" -> "undefined"
      [] v.t = "object" -> "[object Object]"
      [] OTHER -> "Error: " \o v.s

\* ToBoolean(v)
Truthy(v) ==
    CASE v.t = "string" -> v.s # ""
      [] v.t = "number" -> v.n # 0
      [] v.t = "boolean" -> v.n = 1
      [] v.t = "null" -> FALSE
      [] v.t = "undefined" -> FALSE
      [] OTHER -> TRUE

\* a || b
OrElse(a, b) == IF Truthy(a) THEN a ELSE b

HasKey(obj, k) == \E i \in 1..Len(obj.m) : obj.m[i][1] = k

\* obj[k] of an object: undefined when the key is missing
GetKey(obj, k) ==
    IF HasKey(obj, k)
    THEN obj.m[CHOOSE i \in 1..Len(obj.m) : obj.m[i][1] = k][2]
    ELSE Undefined

\* obj[k] = v: in place when the key exists, appended otherwise
SetKey(obj, k, v) ==
    IF HasKey(obj, k)
    THEN Obj([i \in 1..Len(obj.m) |-> IF obj.m[i][1] = k THEN <<k, v>> ELSE obj.m[i]])
    ELSE Obj(Append(obj.m, <<k, v>>))

\* obj?.k
OptKey(obj, k) == IF Nullish(obj) THEN Undefined ELSE GetKey(obj, k)

\* The TypeError of reading property k of null or undefined.
TypeErrorReading(k) == Err("Cannot read properties of undefined (reading '" \o k \o "')")

\* JSON text of a scalar member
JsonValue(v) ==
    CASE v.t = "string" -> "\"" \o v.s \o "\""
      [] v.t = "number" -> ToString(v.n)
      [] v.t = "boolean" -> IF v.n = 1 THEN "true" ELSE "false"
      [] OTHER -> "null"

RECURSIVE JsonMembers(_)
JsonMembers(members) ==
    IF members = <<>> THEN ""
    ELSE LET rest == JsonMembers(Tail(members))
             this == "\"" \o Head(members)[1] \o "\":" \o JsonValue(Head(members)[2])
         IN  IF Head(members)[2].t = "undefined" THEN rest
             ELSE IF rest = "" THEN this
             ELSE this \o "," \o rest

\* JSON.stringify(obj): members with an undefined value are left out
JsonStringify(obj) == "{" \o JsonMembers(obj.m) \o "}"

(***************************************************************************)
(* Request encodings.                                                      *)
(***************************************************************************)
\* new URLSearchParams() followed by append(name, value) for each pair: every
\* value is converted with String(), null included.
FormBody(pairs) == [i \in 1..Len(pairs) |-> <<pairs[i][1], ToStringJS(pairs[i][2])>>]

RECURSIVE QueryString(_)
\* axios serialises `params` and skips the ones that are null or undefined.
QueryString(pairs) ==
    IF pairs = <<>> THEN <<>>
    ELSE IF Head(pairs)[2].t \in {"null", "undefined"}
         THEN QueryString(Tail(pairs))
         ELSE <<(<<Head(pairs)[1], ToStringJS(Head(pairs)[2])>>)>> \o QueryString(Tail(pairs))

\* crypto-js md5(s).toString(): the digest is an external primitive, kept
\* symbolic (injective in its argument).
md5(s) == "md5(" \o s \o ")"

(***************************************************************************)
(* Construction.                                                           *)
(***************************************************************************)
url == "https://crm.example"

username == "admin"

accessKey == "k3y"

webserviceUrl == url \o "/webservice.php"

(***************************************************************************)
(* Module resolver.                                                        *)
(***************************************************************************)
\* A resolver that numbers the keys by their place in the enumeration, which
\* differs from the table for calendar alone (1 instead of 9).
getModuleIdByPosition(module) ==
    LET keys == <<"calendar", "leads", "accounts", "contacts", "potentials", "products",
                  "documents", "emails", "helpdesk", "faq", "vendors", "pricebooks",
                  "quotes", "purchaseorder", "salesorder", "invoice", "campaigns",
                  "events", "users", "groups", "currency", "documentfolders">>
    IN  IF \E i \in 1..Len(keys) : keys[i] = module
        THEN Num(CHOOSE i \in 1..Len(keys) : keys[i] = module)
        ELSE Null

getModuleId(module) ==
    CASE module = "calendar" -> Num(9)
      [] module = "leads" -> Num(2)
      [] module = "accounts" -> Num(3)
      [] module = "contacts" -> Num(4)
      [] module = "potentials" -> Num(5)
      [] module = "products" -> Num(6)
      [] module = "documents" -> Num(7)
      [] module = "emails" -> Num(8)
      [] module = "helpdesk" -> Num(9)
      [] module = "faq" -> Num(10)
      [] module = "vendors" -> Num(11)
      [] module = "pricebooks" -> Num(12)
      [] module = "quotes" -> Num(13)
      [] module = "purchaseorder" -> Num(14)
      [] module = "salesorder" -> Num(15)
      [] module = "invoice" -> Num(16)
      [] module = "campaigns" -> Num(17)
      [] module = "events" -> Num(18)
      [] module = "users" -> Num(19)
      [] module = "groups" -> Num(20)
      [] module = "currency" -> Num(21)
      [] module = "documentfolders" -> Num(22)
      [] OTHER -> Null

getModuleName(module) ==
    CASE module = "calendar" -> Str("Calendar")
      [] module = "leads" -> Str("Leads")
      [] module = "accounts" -> Str("Accounts")
      [] module = "contacts" -> Str("Contacts")
      [] module = "potentials" -> Str("Potentials")
      [] module = "products" -> Str("Products")
      [] module = "documents" -> Str("Documents")
      [] module = "emails" -> Str("Emails")
      [] module = "helpdesk" -> Str("HelpDesk")
      [] module = "faq" -> Str("Faq")
      [] module = "vendors" -> Str("Vendors")
      [] module = "pricebooks" -> Str("PriceBooks")
      [] module = "quotes" -> Str("Quotes")
      [] module = "purchaseorder" -> Str("PurchaseOrder")
      [] module = "salesorder" -> Str("SalesOrder")
      [] module = "invoice" -> Str("Invoice")
      [] module = "campaigns" -> Str("Campaigns")
      [] module = "events" -> Str("Events")
      [] module = "users" -> Str("Users")
      [] module = "groups" -> Str("Groups")
      [] module = "currency" -> Str("Currency")
      [] module = "documentfolders" -> Str("DocumentFolders")
      [] OTHER -> Null

\* The VtigerModule union type.
VtigerModule ==
    {"calendar", "leads", "accounts", "contacts", "potentials", "products",
     "documents", "emails", "helpdesk", "faq", "vendors", "pricebooks", "quotes",
     "purchaseorder", "salesorder", "invoice", "campaigns", "events", "users",
     "groups", "currency", "documentfolders"}

\* `${moduleId}x${recordId}`
RecordRef(moduleId, recordId) == ToStringJS(moduleId) \o "x" \o ToStringJS(Num(recordId))

(***************************************************************************)
(* What the transport hands back: a thrown error, or a response whose data *)
(* is the decoded envelope {success, result} / {success, error}.           *)
(***************************************************************************)
TransportError == [kind |-> "error", error |-> Err("Network Error"), data |-> Undefined]

Http(envelope) == [kind |-> "http", error |-> Undefined, data |-> envelope]

Ok(result) == Obj(<< <<"success", Bool(TRUE)>>, <<"result", result>> >>)

Fail(error) == Obj(<< <<"success", Bool(FALSE)>>, <<"error", error>> >>)

\* The environment's choices.
Tokens == {"t1", "t2"}

ChallengeErrors ==
    { Obj(<< <<"code", Str("INVALID_USER")>>, <<"message", Str("Invalid user")>> >>),
      Obj(<< <<"code", Str("INTERNAL")>>, <<"message", Str("")>> >>),
      Undefined }

ChallengeResponses ==
    {TransportError}
    \cup {Http(Ok(Obj(<< <<"token", Str(tok)>> >>))) : tok \in Tokens}
    \cup {Http(Fail(e)) : e \in ChallengeErrors}

LoginResults ==
    { Obj(<< <<"sessionName", Str("s1")>>, <<"userId", Str("19x1")>> >>),
      Obj(<< <<"sessionName", Str("s2")>>, <<"userId", Str("19x2")>> >>) }

LoginResponses ==
    {TransportError}
    \cup {Http(Ok(r)) : r \in LoginResults}
    \cup {Http(Fail(Obj(<< <<"code", Str("INVALID_AUTH_TOKEN")>>,
                            <<"message", Str("Invalid auth")>> >>)))}

DispatchResponses ==
    { TransportError,
      Http(Ok(Obj(<< <<"id", Str("4x42")>> >>))),
      Http(Fail(Obj(<< <<"code", Str("INVALID_SESSIONID")>>,
                       <<"message", Str("Session expired")>> >>))) }

(***************************************************************************)
(* State.                                                                  *)
(***************************************************************************)
VARIABLES
    sessionId,  \* this.sessionId
    userId,     \* this.userId
    user,       \* this.user
    calls,      \* the calls in flight, in the order they were invoked: what each
                \* is (op), where it waits (pc), the challenge token it got and
                \* the number of requests it has sent so far
    wire,       \* the request the last step sent, with the method that sent it
                \* and its arguments; NoRequest when the step sent none
    settled     \* the call the last step settled, with the response that
                \* settled it; NotSettled when the step settled none

vars == <<sessionId, userId, user, calls, wire, settled>>

fields == <<sessionId, userId, user>>

\* How many calls may be in flight at once.
MaxInFlight == 2

NoArgs ==
    [module |-> "", recordId |-> 0, relatedModule |-> "", relatedRecordId |-> 0,
     data |-> Undefined, label |-> "", query |-> ""]

NoRequest ==
    [by |-> 0, op |-> "none", args |-> NoArgs, method |-> "", url |-> "",
     params |-> <<>>, contentType |-> ""]

NotSettled ==
    [op |-> "none", stage |-> "", response |-> TransportError,
     kind |-> "", value |-> Undefined, nreq |-> 0]

\* axios.get(url, {params})
Get(at, params) ==
    [by |-> 0, op |-> "none", args |-> NoArgs, method |-> "GET", url |-> at,
     params |-> QueryString(params), contentType |-> ""]

\* axios.post(url, URLSearchParams, {headers: {'Content-Type': ...}})
Post(at, params) ==
    [by |-> 0, op |-> "none", args |-> NoArgs, method |-> "POST", url |-> at,
     params |-> FormBody(params), contentType |-> "application/x-www-form-urlencoded"]

\* The value of a parameter of a request; Undefined when it carries none.
Param(req, name) ==
    IF \E i \in 1..Len(req.params) : req.params[i][1] = name
    THEN Str(req.params[CHOOSE i \in 1..Len(req.params) : req.params[i][1] = name][2])
    ELSE Undefined

Remove(seq, i) == [j \in 1..(Len(seq) - 1) |-> IF j < i THEN seq[j] ELSE seq[j + 1]]

\* The constructor.
Init ==
    /\ sessionId = Null
    /\ user = Null
    /\ userId = Null
    /\ calls = <<>>
    /\ wire = NoRequest
    /\ settled = NotSettled

(***************************************************************************)
(* login() and getChallenge().                                             *)
(***************************************************************************)
ChallengeRequest ==
    Get(webserviceUrl, << <<"operation", Str("getchallenge")>>, <<"username", Str(username)>> >>)

\* getChallenge() without its check of the envelope's success field.
getChallengeUnchecked(response) ==
    IF response.kind = "error"
    THEN [threw |-> TRUE, value |-> response.error]
    ELSE [threw |-> FALSE, value |-> response.data]

\* getChallenge() once its GET has settled: what it throws or returns.
getChallenge(response) ==
    IF response.kind = "error"
    THEN [threw |-> TRUE, value |-> response.error]
    ELSE IF ~Truthy(GetKey(response.data, "success"))
    THEN [threw |-> TRUE,
          value |-> Err(ToStringJS(OrElse(OptKey(GetKey(response.data, "error"), "message"),
                                          Str("Operation failed: getchallenge"))))]
    ELSE [threw |-> FALSE, value |-> response.data]

\* login's catch: Promise.reject(error.message || error)
LoginReject(error) == OrElse(Str(error.s), error)

\* The hash with its operands swapped: md5(this.accessKey + challengeToken).
LoginHashSwapped(challengeToken) == md5(accessKey \o ToStringJS(challengeToken))

\* md5(challengeToken + this.accessKey).toString()
LoginHash(challengeToken) == md5(ToStringJS(challengeToken) \o accessKey)

LoginRequest(hash) ==
    Post(webserviceUrl, << <<"operation", Str("login")>>, <<"username", Str(username)>>,
                           <<"accessKey", Str(hash)>> >>)

\* The assignments reading data.result?.sessionName: the first one stores
\* undefined before the second one throws.
LoginAssignOptional(data, sid, uid, usr) ==
    LET result == GetKey(data, "result")
    IN  IF Nullish(result)
        THEN [threw |-> TRUE, error |-> TypeErrorReading("userId"),
              sessionId |-> Undefined, userId |-> uid, user |-> usr]
        ELSE [threw |-> FALSE, error |-> Undefined,
              sessionId |-> GetKey(result, "sessionName"),
              userId |-> GetKey(result, "userId"),
              user |-> result]

\* The assignments without the one to this.userId.
LoginAssignNoUserId(data, sid, uid, usr) ==
    LET result == GetKey(data, "result")
    IN  IF Nullish(result)
        THEN [threw |-> TRUE, error |-> TypeErrorReading("sessionName"),
              sessionId |-> sid, userId |-> uid, user |-> usr]
        ELSE [threw |-> FALSE, error |-> Undefined,
              sessionId |-> GetKey(result, "sessionName"),
              userId |-> uid,
              user |-> result]

\* The three assignments after the login POST: reading data.result.sessionName
\* throws when data has no result, before anything is assigned.
LoginAssign(data, sid, uid, usr) ==
    LET result == GetKey(data, "result")
    IN  IF Nullish(result)
        THEN [threw |-> TRUE, error |-> TypeErrorReading("sessionName"),
              sessionId |-> sid, userId |-> uid, user |-> usr]
        ELSE [threw |-> FALSE, error |-> Undefined,
              sessionId |-> GetKey(result, "sessionName"),
              userId |-> GetKey(result, "userId"),
              user |-> result]

Settle(i, stage, response, kind, value) ==
    /\ settled' = [op |-> calls[i].op, stage |-> stage,
                   response |-> response, kind |-> kind, value |-> value,
                   nreq |-> calls[i].nreq]
    /\ calls' = Remove(calls, i)
    /\ wire' = NoRequest

\* login() up to its first await: getChallenge() sends the challenge GET.
Login ==
    /\ Len(calls) < MaxInFlight
    /\ calls' = Append(calls, [op |-> "login", pc |-> "challenge",
                               token |-> Undefined, nreq |-> 1])
    /\ wire' = [ChallengeRequest EXCEPT !.by = Len(calls) + 1, !.op = "login"]
    /\ settled' = NotSettled
    /\ UNCHANGED fields

\* The challenge GET settles: login rejects, or hashes the token and posts.
LoginOnChallenge(i, response) ==
    /\ calls[i].op = "login"
    /\ calls[i].pc = "challenge"
    /\ LET ch == getChallenge(response)
           result == GetKey(ch.value, "result")
       IN  IF ch.threw
           THEN /\ Settle(i, "challenge", response, "rejected", LoginReject(ch.value))
                /\ UNCHANGED fields
           ELSE IF Nullish(result)
           THEN /\ Settle(i, "challenge", response, "rejected",
                          LoginReject(TypeErrorReading("token")))
                /\ UNCHANGED fields
           ELSE /\ calls' = [calls EXCEPT ![i].pc = "login",
                                          ![i].token = GetKey(result, "token"),
                                          ![i].nreq = 2]
                /\ wire' = [LoginRequest(LoginHash(GetKey(result, "token"))) EXCEPT !.by = i, !.op = "login"]
                /\ settled' = NotSettled
                /\ UNCHANGED fields

\* The login POST settles.
LoginOnResponse(i, response) ==
    /\ calls[i].op = "login"
    /\ calls[i].pc = "login"
    /\ IF response.kind = "error"
       THEN /\ Settle(i, "login", response, "rejected", LoginReject(response.error))
            /\ UNCHANGED fields
       ELSE LET a == LoginAssign(response.data, sessionId, userId, user)
            IN  /\ sessionId' = a.sessionId
                /\ userId' = a.userId
                /\ user' = a.user
                /\ IF a.threw
                   THEN Settle(i, "login", response, "rejected", LoginReject(a.error))
                   ELSE Settle(i, "login", response, "resolved", response.data)

(***************************************************************************)
(* The dispatcher operations.  Each one resolves its modules, builds its   *)
(* request from its arguments and the session fields, and sends it, all    *)
(* before its first await.                                                 *)
(***************************************************************************)
\* The arguments the callers pass.
ModuleInputs == {"contacts", "nosuch"}

RelatedInputs == {"documents", "nosuch"}

RecordNumbers == {42}

RelatedNumbers == {7}

Labels == {"Documents"}

Queries == {"SELECT * FROM Contacts;"}

CreateInputs ==
    { Obj(<< <<"lastname", Str("Doe")>> >>),
      Obj(<< <<"lastname", Str("Doe")>>, <<"assigned_user_id", Str("19x5")>> >>),
      Obj(<< <<"assigned_user_id", Str("")>>, <<"lastname", Str("Doe")>> >>),
      Obj(<< <<"lastname", Str("Doe")>>, <<"assigned_user_id", Num(0)>> >>) }

UpdateInputs == { Obj(<< <<"lastname", Str("Roe")>> >>) }

\* The assignment without its test: data.assigned_user_id = this.userId
AssignedUserAlways(data, uid) == uid

\* data.assigned_user_id || this.userId
AssignedUser(data, uid) == OrElse(GetKey(data, "assigned_user_id"), uid)

CreateRequest(module, data, sid, uid) ==
    LET moduleName == getModuleName(module)
        element == SetKey(data, "assigned_user_id", AssignedUser(data, uid))
    IN  Post(webserviceUrl, << <<"operation", Str("create")>>,
                               <<"sessionName", sid>>,
                               <<"element", Str(JsonStringify(element))>>,
                               <<"elementType", moduleName>> >>)

RetrieveRequest(module, recordId, sid) ==
    LET moduleId == getModuleId(module)
    IN  Get(webserviceUrl, << <<"operation", Str("retrieve")>>,
                              <<"sessionName", sid>>,
                              <<"id", Str(RecordRef(moduleId, recordId))>> >>)

UpdateRequest(module, recordId, data, sid) ==
    LET moduleId == getModuleId(module)
        element == SetKey(data, "id", Str(RecordRef(moduleId, recordId)))
    IN  Post(webserviceUrl, << <<"operation", Str("update")>>,
                               <<"sessionName", sid>>,
                               <<"element", Str(JsonStringify(element))>> >>)

DeleteRequest(module, recordId, sid) ==
    LET moduleId == getModuleId(module)
    IN  Post(webserviceUrl, << <<"operation", Str("delete")>>,
                               <<"sessionName", sid>>,
                               <<"id", Str(RecordRef(moduleId, recordId))>> >>)

QueryRequest(query, sid) ==
    Get(webserviceUrl, << <<"operation", Str("query")>>,
                          <<"sessionName", sid>>,
                          <<"query", Str(query)>> >>)

ListTypesRequest(sid) ==
    Get(webserviceUrl, << <<"operation", Str("listtypes")>>, <<"sessionName", sid>> >>)

DescribeRequest(module, sid) ==
    LET moduleName == getModuleName(module)
    IN  Get(webserviceUrl, << <<"operation", Str("describe")>>,
                              <<"sessionName", sid>>,
                              <<"elementType", moduleName>> >>)

RetrieveRelatedRequest(module, recordId, relatedModule, relatedLabel, sid) ==
    LET moduleId == getModuleId(module)
        relateModuleName == getModuleName(relatedModule)
    IN  Get(webserviceUrl, << <<"operation", Str("retrieve_related")>>,
                              <<"sessionName", sid>>,
                              <<"id", Str(RecordRef(moduleId, recordId))>>,
                              <<"relatedLabel", Str(relatedLabel)>>,
                              <<"relatedType", relateModuleName>> >>)

RelatedTypesRequest(module, sid) ==
    LET moduleName == getModuleName(module)
    IN  Get(webserviceUrl, << <<"operation", Str("relatedtypes")>>,
                              <<"sessionName", sid>>,
                              <<"elementType", moduleName>> >>)

QueryRelatedRequest(module, recordId, relatedLabel, sid) ==
    LET moduleId == getModuleId(module)
        moduleName == getModuleName(module)
    IN  Get(webserviceUrl, << <<"operation", Str("query_related")>>,
                              <<"sessionName", sid>>,
                              <<"query", Str("SELECT * FROM " \o ToStringJS(moduleName))>>,
                              <<"id", Str(RecordRef(moduleId, recordId))>>,
                              <<"relatedLabel", Str(relatedLabel)>> >>)

DeleteRelatedRequest(sourceModule, sourceRecordId, relatedModule, relatedRecordId, sid) ==
    LET sourceModuleId == getModuleId(sourceModule)
        relatedModuleId == getModuleId(relatedModule)
    IN  Post(webserviceUrl, << <<"operation", Str("delete_related")>>,
                               <<"sessionName", sid>>,
                               <<"sourceRecordId", Str(RecordRef(sourceModuleId, sourceRecordId))>>,
                               <<"relatedRecordId", Str(RecordRef(relatedModuleId, relatedRecordId))>> >>)

AddRelatedRequest(sourceModule, sourceRecordId, relatedModule, relatedRecordId, relationIdLabel, sid) ==
    LET sourceModuleId == getModuleId(sourceModule)
        relatedModuleId == getModuleId(relatedModule)
    IN  Post(webserviceUrl, << <<"operation", Str("add_related")>>,
                               <<"sessionName", sid>>,
                               <<"sourceRecordId", Str(RecordRef(sourceModuleId, sourceRecordId))>>,
                               <<"relatedRecordId", Str(RecordRef(relatedModuleId, relatedRecordId))>>,
                               <<"relationIdLabel", Str(relationIdLabel)>> >>)

LogoutRequest(sid) ==
    Post(webserviceUrl, << <<"operation", Str("logout")>>, <<"sessionName", sid>> >>)

\* The synchronous part of a dispatcher method: the call is in flight with
\* its one request sent.
Invoke(op, args, request) ==
    /\ Len(calls) < MaxInFlight
    /\ calls' = Append(calls, [op |-> op, pc |-> "dispatch",
                               token |-> Undefined, nreq |-> 1])
    /\ wire' = [request EXCEPT !.by = Len(calls) + 1, !.op = op, !.args = args]
    /\ settled' = NotSettled
    /\ UNCHANGED fields

Create(module, data) ==
    Invoke("create", [NoArgs EXCEPT !.module = module, !.data = data],
           CreateRequest(module, data, sessionId, userId))

Retrieve(module, recordId) ==
    Invoke("retrieve", [NoArgs EXCEPT !.module = module, !.recordId = recordId],
           RetrieveRequest(module, recordId, sessionId))

Update(module, recordId, data) ==
    Invoke("update", [NoArgs EXCEPT !.module = module, !.recordId = recordId, !.data = data],
           UpdateRequest(module, recordId, data, sessionId))

Delete(module, recordId) ==
    Invoke("delete", [NoArgs EXCEPT !.module = module, !.recordId = recordId],
           DeleteRequest(module, recordId, sessionId))

Query(query) ==
    Invoke("query", [NoArgs EXCEPT !.query = query], QueryRequest(query, sessionId))

ListTypes == Invoke("listTypes", NoArgs, ListTypesRequest(sessionId))

Describe(module) ==
    Invoke("describe", [NoArgs EXCEPT !.module = module], DescribeRequest(module, sessionId))

RetrieveRelated(module, recordId, relatedModule, relatedLabel) ==
    Invoke("retrieveRelated",
           [NoArgs EXCEPT !.module = module, !.recordId = recordId,
                          !.relatedModule = relatedModule, !.label = relatedLabel],
           RetrieveRelatedRequest(module, recordId, relatedModule, relatedLabel, sessionId))

RelatedTypes(module) ==
    Invoke("relatedTypes", [NoArgs EXCEPT !.module = module],
           RelatedTypesRequest(module, sessionId))

QueryRelated(module, recordId, relatedLabel) ==
    Invoke("queryRelated",
           [NoArgs EXCEPT !.module = module, !.recordId = recordId, !.label = relatedLabel],
           QueryRelatedRequest(module, recordId, relatedLabel, sessionId))

DeleteRelated(sourceModule, sourceRecordId, relatedModule, relatedRecordId) ==
    Invoke("deleteRelated",
           [NoArgs EXCEPT !.module = sourceModule, !.recordId = sourceRecordId,
                          !.relatedModule = relatedModule,
                          !.relatedRecordId = relatedRecordId],
           DeleteRelatedRequest(sourceModule, sourceRecordId, relatedModule,
                                relatedRecordId, sessionId))

AddRelated(sourceModule, sourceRecordId, relatedModule, relatedRecordId, relationIdLabel) ==
    Invoke("addRelated",
           [NoArgs EXCEPT !.module = sourceModule, !.recordId = sourceRecordId,
                          !.relatedModule = relatedModule,
                          !.relatedRecordId = relatedRecordId, !.label = relationIdLabel],
           AddRelatedRequest(sourceModule, sourceRecordId, relatedModule,
                             relatedRecordId, relationIdLabel, sessionId))

Logout == Invoke("logout", NoArgs, LogoutRequest(sessionId))

\* A dispatcher method that unwraps the envelope: resolve(response.data.result)
DispatchOutcomeUnwrapped(response) ==
    IF response.kind = "error"
    THEN [kind |-> "rejected", value |-> response.error]
    ELSE [kind |-> "resolved", value |-> GetKey(response.data, "result")]

\* What a dispatcher method (and logout) makes of its settled request:
\* Promise.reject(error) when axios threw, Promise.resolve(response.data) otherwise.
DispatchOutcome(response) ==
    IF response.kind = "error"
    THEN [kind |-> "rejected", value |-> response.error]
    ELSE [kind |-> "resolved", value |-> response.data]

\* A logout that forgets the session once it has settled.
DispatchFieldsCleared(op, sid, uid, usr) ==
    IF op = "logout" THEN <<Null, Null, Null>> ELSE <<sid, uid, usr>>

\* The session fields after a dispatcher method or logout has settled: none
\* of them assigns to this.sessionId, this.userId or this.user.
DispatchFields(op, sid, uid, usr) == <<sid, uid, usr>>

DispatchOnResponse(i, response) ==
    /\ calls[i].pc = "dispatch"
    /\ LET o == DispatchOutcome(response)
       IN  Settle(i, "dispatch", response, o.kind, o.value)
    /\ LET f == DispatchFields(calls[i].op, sessionId, userId, user)
       IN  /\ sessionId' = f[1]
           /\ userId' = f[2]
           /\ user' = f[3]

Next ==
    \/ Login
    \/ \E i \in 1..Len(calls), r \in ChallengeResponses : LoginOnChallenge(i, r)
    \/ \E i \in 1..Len(calls), r \in LoginResponses : LoginOnResponse(i, r)
    \/ \E m \in ModuleInputs, d \in CreateInputs : Create(m, d)
    \/ \E m \in ModuleInputs, n \in RecordNumbers : Retrieve(m, n)
    \/ \E m \in ModuleInputs, n \in RecordNumbers, d \in UpdateInputs : Update(m, n, d)
    \/ \E m \in ModuleInputs, n \in RecordNumbers : Delete(m, n)
    \/ \E q \in Queries : Query(q)
    \/ ListTypes
    \/ \E m \in ModuleInputs : Describe(m)
    \/ \E m \in ModuleInputs, n \in RecordNumbers, r \in RelatedInputs, l \in Labels :
          RetrieveRelated(m, n, r, l)
    \/ \E m \in ModuleInputs : RelatedTypes(m)
    \/ \E m \in ModuleInputs, n \in RecordNumbers, l \in Labels : QueryRelated(m, n, l)
    \/ \E m \in ModuleInputs, n \in RecordNumbers, r \in RelatedInputs, k \in RelatedNumbers :
          DeleteRelated(m, n, r, k)
    \/ \E m \in ModuleInputs, n \in RecordNumbers, r \in RelatedInputs, k \in RelatedNumbers,
          l \in Labels : AddRelated(m, n, r, k, l)
    \/ Logout
    \/ \E i \in 1..Len(calls), r \in DispatchResponses : DispatchOnResponse(i, r)

Spec == Init /\ [][Next]_vars

(***************************************************************************)
(* The resolvers over every key: the methods whose request shows what the  *)
(* resolvers returned (a record reference, a module name, or both), called *)
(* with each key of the enumeration and with keys outside it, between      *)
(* logins and logouts.                                                     *)
(***************************************************************************)
ResolverInputs == VtigerModule \cup {"nosuch", "Leads", "helpdesks", ""}

NextResolver ==
    \/ Login
    \/ \E i \in 1..Len(calls), r \in ChallengeResponses : LoginOnChallenge(i, r)
    \/ \E i \in 1..Len(calls), r \in LoginResponses : LoginOnResponse(i, r)
    \/ \E m \in ResolverInputs, n \in RecordNumbers : Retrieve(m, n)
    \/ \E m \in ResolverInputs : Describe(m)
    \/ \E m \in ResolverInputs, n \in RecordNumbers, l \in Labels : QueryRelated(m, n, l)
    \/ Logout
    \/ \E i \in 1..Len(calls), r \in DispatchResponses : DispatchOnResponse(i, r)

SpecResolver == Init /\ [][NextResolver]_vars

(***************************************************************************)
(* Properties.                                                             *)
(***************************************************************************)
\* The envelope of a response says success: false.
Refused(response) == response.kind = "http" /\ ~Truthy(GetKey(response.data, "success"))

LoginStep == wire'.op = "login" \/ settled'.op = "login"

LoginSucceeds == settled'.op = "login" /\ settled'.kind = "resolved"

\* C1: whenever login() fails (the challenge is refused, the challenge GET or the
\* login POST fails in the transport, or the login response is no success
\* envelope), the call is rejected, and no step of a login() call other than its
\* successful completion changes sessionId, userId or user: they keep the values
\* they had, absent or the prior session's.
C1_FailedLoginKeepsSession ==
    /\ [](settled.op = "login"
            /\ (settled.response.kind = "error" \/ Refused(settled.response))
          => settled.kind = "rejected")
    /\ [][LoginStep /\ ~LoginSucceeds => UNCHANGED fields]_vars

\* A re-login has just failed on a refused login POST and the prior session is
\* still held.
C1_Witness ==
    /\ settled.op = "login"
    /\ settled.stage = "login"
    /\ Refused(settled.response)
    /\ settled.kind = "rejected"
    /\ sessionId = Str("s1")
    /\ userId = Str("19x1")

\* C2: a login() whose getchallenge response says success: false has sent one
\* request only, the challenge GET and never the login POST, and is rejected with
\* the response's error message, or with 'Operation failed: getchallenge' when
\* the response carries no (or an empty) message; a login POST is sent only by a
\* login() call that holds a challenge token.
C2_RefusedChallengeStopsLogin ==
    /\ (settled.op = "login" /\ settled.stage = "challenge" /\ Refused(settled.response))
       => /\ settled.nreq = 1
          /\ wire = NoRequest
          /\ settled.kind = "rejected"
          /\ LET error == GetKey(settled.response.data, "error")
                 message == IF error.t = "object" THEN GetKey(error, "message") ELSE Undefined
             IN  settled.value =
                    IF message.t = "string" /\ message.s # ""
                    THEN message
                    ELSE Str("Operation failed: getchallenge")
    /\ (wire.op = "login" /\ wire.method = "POST")
       => /\ calls[wire.by].pc = "login"
          /\ calls[wire.by].token.t = "string"

\* A login() has just been rejected with the fallback message after a refused
\* challenge that carried no error object.
C2_Witness ==
    /\ settled.op = "login"
    /\ settled.stage = "challenge"
    /\ Refused(settled.response)
    /\ GetKey(settled.response.data, "error") = Undefined
    /\ settled.value = Str("Operation failed: getchallenge")
    /\ settled.nreq = 1

\* The methods that take a module, and the ones that take a second one.
ModuleOps ==
    {"create", "retrieve", "update", "delete", "describe", "retrieveRelated",
     "relatedTypes", "queryRelated", "deleteRelated", "addRelated"}

RelatedModuleOps == {"retrieveRelated", "deleteRelated", "addRelated"}

\* A request of a dispatcher method or of logout (not of login).
Dispatched(req) == req.op \notin {"none", "login"}

\* C3: a dispatcher method called with a module key outside the 22-key
\* enumeration sends no request: every request of a method that takes a module
\* comes from a call whose module keys are all in the enumeration.
C3_UnknownModuleSendsNothing ==
    wire.op \in ModuleOps
    => /\ wire.args.module \in VtigerModule
       /\ wire.op \in RelatedModuleOps => wire.args.relatedModule \in VtigerModule

\* C4: a dispatcher call whose response envelope says success: false is rejected.
C4_RefusedCallIsRejected ==
    (settled.stage = "dispatch" /\ settled.op # "logout" /\ Refused(settled.response))
    => settled.kind = "rejected"

\* C5: a request sent by a dispatcher method while no login() has succeeded (the
\* session fields are still absent) carries sessionName as empty or not at all.
C5_NoSessionSendsNoSessionName ==
    (Dispatched(wire) /\ wire.op # "logout" /\ sessionId = Null)
    => Param(wire, "sessionName") \in {Undefined, Str("")}

\* C6: no parameter of any request is the plaintext accessKey; a request carries
\* an accessKey parameter exactly when it is a login POST, and its value is then
\* MD5(T + accessKey) for the token T that the same login() call got from its
\* own challenge.
C6_AccessKeyOnlyHashed ==
    wire.op # "none"
    => /\ \A i \in 1..Len(wire.params) : wire.params[i][2] # "k3y"
       /\ (Param(wire, "accessKey") # Undefined)
             <=> (wire.method = "POST" /\ Param(wire, "operation") = Str("login"))
       /\ Param(wire, "operation") = Str("login")
          => /\ wire.op = "login"
             /\ calls[wire.by].token.t = "string"
             /\ Param(wire, "accessKey") = Str(md5(calls[wire.by].token.s \o "k3y"))

\* A login POST has just been sent by a login() call that overlaps another one
\* holding a different token.
C6_Witness ==
    /\ wire.op = "login"
    /\ wire.method = "POST"
    /\ \E i \in 1..Len(calls) :
          /\ i # wire.by
          /\ calls[i].op = "login"
          /\ calls[i].pc = "login"
          /\ calls[i].token # calls[wire.by].token

\* C7: the session fields are all absent, or all three come from one successful
\* login response (sessionId its sessionName, userId its userId, user its
\* result); a login() that resolves has set them from its own response and
\* resolves with that response's data unchanged.
C7_SessionFieldsFromOneLogin ==
    /\ \/ sessionId = Null /\ userId = Null /\ user = Null
       \/ /\ user \in LoginResults
          /\ sessionId = GetKey(user, "sessionName")
          /\ userId = GetKey(user, "userId")
    /\ (settled.op = "login" /\ settled.kind = "resolved")
       => /\ settled.response.kind = "http"
          /\ settled.value = settled.response.data
          /\ user = GetKey(settled.response.data, "result")
          /\ sessionId = GetKey(user, "sessionName")
          /\ userId = GetKey(user, "userId")

\* A second login() has just resolved, replacing the session of an earlier one,
\* while another login() call is still waiting for its login POST.
C7_Witness ==
    /\ settled.op = "login"
    /\ settled.kind = "resolved"
    /\ sessionId = Str("s2")
    /\ userId = Str("19x2")
    /\ \E i \in 1..Len(calls) : calls[i].op = "login" /\ calls[i].pc = "login"

\* C8: no step of logout() or of a dispatcher method, sending or settling,
\* resolved or rejected, changes sessionId, userId or user; so a request sent
\* while a session is held carries that session's token as sessionName (after a
\* logout too), and retrieve sends for the same arguments and the same held
\* session the same request.
C8_OnlyLoginWritesSession ==
    /\ [][(Dispatched(wire') \/ settled'.stage = "dispatch") => UNCHANGED fields]_vars
    /\ []((Dispatched(wire) /\ sessionId # Null) => Param(wire, "sessionName") = sessionId)
    /\ []((wire.op = "retrieve" /\ wire.args.module = "contacts")
          => /\ wire.method = "GET"
             /\ wire.url = "https://crm.example/webservice.php"
             /\ wire.params =
                   << <<"operation", "retrieve">> >>
                   \o (IF sessionId = Null THEN <<>>
                       ELSE << <<"sessionName", sessionId.s>> >>)
                   \o << <<"id", "4x" \o ToString(wire.args.recordId)>> >>)

\* A logout() has just resolved with the remote's success and the client still
\* holds the session.
C8_Witness ==
    /\ settled.op = "logout"
    /\ settled.kind = "resolved"
    /\ ~Refused(settled.response)
    /\ sessionId = Str("s1")
    /\ user # Null

\* C9: a dispatcher call sends one request, when it is invoked, to
\* {url}/webservice.php, carrying the sessionId held at that moment (left out of
\* a GET and printed as "null" in a form when none is held); it sends nothing
\* when it settles; it is rejected on a transport error and otherwise resolves
\* with exactly the decoded body of the response.
C9_OneRequestPerCall ==
    /\ \A i \in 1..Len(calls) : calls[i].pc = "dispatch" => calls[i].nreq = 1
    /\ Dispatched(wire)
       => /\ wire.by = Len(calls)
          /\ wire.url = "https://crm.example/webservice.php"
          /\ Param(wire, "sessionName") =
                IF sessionId # Null THEN sessionId
                ELSE IF wire.method = "GET" THEN Undefined ELSE Str("null")
    /\ settled.stage = "dispatch"
       => /\ settled.nreq = 1
          /\ wire = NoRequest
          /\ settled.response.kind = "http"
             => settled.kind = "resolved" /\ settled.value = settled.response.data
          /\ settled.response.kind = "error" => settled.kind = "rejected"

\* A login() has just resolved while a dispatcher call, its request sent, is
\* still in flight.
C9_Witness ==
    /\ settled.op = "login"
    /\ settled.kind = "resolved"
    /\ \E i \in 1..Len(calls) : calls[i].pc = "dispatch" /\ calls[i].nreq = 1

\* The element a create request carries for this value of assigned_user_id.
ElementWith(data, value) == Str(JsonStringify(SetKey(data, "assigned_user_id", value)))

\* C10 as stated: create sends the caller's assigned_user_id untouched whenever
\* data has one, whatever its value, and the current userId when data has none.
C10_AssignedUserUntouched ==
    wire.op = "create"
    => Param(wire, "element") =
          ElementWith(wire.args.data,
                      IF HasKey(wire.args.data, "assigned_user_id")
                      THEN GetKey(wire.args.data, "assigned_user_id")
                      ELSE userId)

\* C10 as amended: create sends the caller's assigned_user_id untouched when it
\* is truthy (a non-empty string, a non-zero number), and the current userId
\* (null before a login) when data has none or a falsy one.
C10_AssignedUserDefault ==
    wire.op = "create"
    => LET given == GetKey(wire.args.data, "assigned_user_id")
           kept == \/ given.t = "string" /\ given.s # ""
                   \/ given.t = "number" /\ given.n # 0
       IN  /\ Param(wire, "element") =
                 ElementWith(wire.args.data, IF kept THEN given ELSE userId)
           /\ Param(wire, "operation") = Str("create")

\* create has just been sent for data with an empty assigned_user_id while a
\* user is logged in: the element carries that user's id in its place.
C10_Witness ==
    /\ wire.op = "create"
    /\ userId = Str("19x1")
    /\ GetKey(wire.args.data, "assigned_user_id") = Str("")
    /\ Param(wire, "element") = Str("{\"assigned_user_id\":\"19x1\",\"lastname\":\"Doe\"}")

\* The table of the module keys: <<key, id, name>>.
ModuleTable ==
    { <<"calendar", 9, "Calendar">>, <<"leads", 2, "Leads">>,
      <<"accounts", 3, "Accounts">>, <<"contacts", 4, "Contacts">>,
      <<"potentials", 5, "Potentials">>, <<"products", 6, "Products">>,
      <<"documents", 7, "Documents">>, <<"emails", 8, "Emails">>,
      <<"helpdesk", 9, "HelpDesk">>, <<"faq", 10, "Faq">>,
      <<"vendors", 11, "Vendors">>, <<"pricebooks", 12, "PriceBooks">>,
      <<"quotes", 13, "Quotes">>, <<"purchaseorder", 14, "PurchaseOrder">>,
      <<"salesorder", 15, "SalesOrder">>, <<"invoice", 16, "Invoice">>,
      <<"campaigns", 17, "Campaigns">>, <<"events", 18, "Events">>,
      <<"users", 19, "Users">>, <<"groups", 20, "Groups">>,
      <<"currency", 21, "Currency">>, <<"documentfolders", 22, "DocumentFolders">> }

TableKeys == {row[1] : row \in ModuleTable}

TableRow(key) == CHOOSE row \in ModuleTable : row[1] = key

\* C11: in every state, for each of the 22 keys of the enumeration getModuleId
\* and getModuleName return the table's id (2..22, calendar and helpdesk both 9)
\* and name, and for a key outside it both return null; the requests of
\* retrieve, describe and queryRelated carry exactly these values, whatever
\* logins, logouts and calls came before.
C11_ResolversFollowTable ==
    /\ VtigerModule = TableKeys
    /\ Cardinality(VtigerModule) = 22
    /\ \A key \in ResolverInputs :
          IF key \in TableKeys
          THEN /\ getModuleId(key) = Num(TableRow(key)[2])
               /\ getModuleId(key).n \in 2..22
               /\ getModuleName(key) = Str(TableRow(key)[3])
          ELSE /\ getModuleId(key) = Null
               /\ getModuleName(key) = Null
    /\ (wire.op \in {"retrieve", "queryRelated"} /\ wire.args.module \in TableKeys)
       => Param(wire, "id") =
             Str(ToString(TableRow(wire.args.module)[2]) \o "x" \o ToString(wire.args.recordId))
    /\ (wire.op = "describe" /\ wire.args.module \in TableKeys)
       => Param(wire, "elementType") = Str(TableRow(wire.args.module)[3])
    /\ (wire.op = "queryRelated" /\ wire.args.module \in TableKeys)
       => Param(wire, "query") = Str("SELECT * FROM " \o TableRow(wire.args.module)[3])

\* retrieve has just been sent for the calendar module, after a login: its
\* record reference carries 9, the id calendar shares with helpdesk.
C11_Witness ==
    /\ wire.op = "retrieve"
    /\ wire.args.module = "calendar"
    /\ Param(wire, "id") = Str("9x42")
    /\ getModuleId("helpdesk") = Num(9)
    /\ getModuleName("nosuch") = Null
    /\ sessionId = Str("s1")

=============================================================================
